---- MODULE Spec2Model ----
(***************************************************************************)
(* A model of AutotermPassthrough (src/autoterm_heater.py): the framing    *)
(* codec, the worker loop that forwards bytes between two serial           *)
(* transports, the semantic decoder, the injection queue gated by the      *)
(* write-lock, the timers and the host API.                                *)
(*                                                                         *)
(* Time is time.time() in seconds.  The worker loop is cut into one        *)
(* action per block of __worker_thread; the clock, the two transports and  *)
(* the caller threads of the host API move between those blocks.           *)
(***************************************************************************)
EXTENDS Integers, Sequences, FiniteSets, TLC

(***************************************************************************)
(* Bounds of the model.                                                    *)
(***************************************************************************)
\* the clock advances in steps of Quantum seconds, up to MaxTime
Quantum == 10
MaxTime == 20
\* the injection queue holds at most MaxQueue frames
MaxQueue == 3
\* a chunk arrives on a side only while at most MaxBacklog bytes are pending,
\* and at most MaxArrivals chunks arrive in all
MaxBacklog == 2
MaxArrivals == 3
\* the transports fail at most MaxFaults times
MaxFaults == 1
\* the caller threads make at most MaxCalls host API calls
MaxCalls == 2
\* the clock also jumps by LongQuantum seconds, up to MaxLongTime
LongQuantum == 60
MaxLongTime == 60
\* requests delivered to the heater and not yet answered that are remembered
MaxOwed == 2

(***************************************************************************)
(* Program constants.                                                      *)
(***************************************************************************)
write_lock_delay == 10
\* a retry block that does not wait between off frames
shutdown_delay_none == 10 - 10

shutdown_delay == 10
settings_delay == 5
\* a status poll that does not wait for its period
status_delay_none == 5 - 5

status_delay == 5
minPacketSize == 7
connect_retry_sleep == 10

\* Python's None and a value that is not None: a register, a timer or a role
\* binding holds None or Some(x)
None == <<>>
Some(x) == <<x>>
Val(o) == o[1]
Sides == {1, 2}
Other(s) == 3 - s

(***************************************************************************)
(* Framing codec: AutotermUtils.                                           *)
(***************************************************************************)
\* bit i of x
Bit(x, i) == (x \div (2 ^ i)) % 2
\* x with bit i inverted
Flip(x, i) == IF Bit(x, i) = 1 THEN x - 2 ^ i ELSE x + 2 ^ i

\* crc ^= byte: the low eight bits of crc, each inverted where byte has a 1
XorByte(crc, byte) ==
    LET lo == crc % 256
        x == [i \in 0..7 |-> ((Bit(lo, i) + Bit(byte, i)) % 2) * 2 ^ i]
    IN  (crc \div 256) * 256 + x[0] + x[1] + x[2] + x[3] + x[4] + x[5] + x[6] + x[7]

\* crc ^= 0xa001: bits 15, 13 and 0 inverted
XorPoly(crc) == Flip(Flip(Flip(crc, 15), 13), 0)

\* one round of the inner loop of crc16
crcShift(crc) == IF crc % 2 # 0 THEN XorPoly(crc \div 2) ELSE crc \div 2

\* crc ^= byte, then the eight rounds
crcByte(crc, byte) ==
    crcShift(crcShift(crcShift(crcShift(
        crcShift(crcShift(crcShift(crcShift(XorByte(crc, byte)))))))))

RECURSIVE crcFrom(_, _, _, _)
\* the outer loop of crc16 over bytes i..j, in order.  The range is taken in
\* two halves and the crc is evaluated after the first, which keeps the
\* evaluation shallow for a frame of 262 bytes
crcFrom(crc, package, i, j) ==
    IF i > j THEN crc
    ELSE IF i = j THEN crcByte(crc, package[i])
    ELSE LET mid == (i + j) \div 2
             c == crcFrom(crc, package, i, mid)
         IN  IF c < 0 THEN c ELSE crcFrom(c, package, mid + 1, j)

\* crc after all bytes of package, from 0xffff
crcAfter(package) == crcFrom(65535, package, 1, Len(package))

\* the CRC with its low byte first
crc16_little(package) ==
    LET crc == crcAfter(package)
    IN  <<crc % 256, crc \div 256>>

\* crc.to_bytes(2, byteorder='big')
crc16(package) ==
    LET crc == crcAfter(package)
    IN  <<crc \div 256, crc % 256>>

Devices == {0, 2, 3, 4}

\* parse returns 0 in the code when it rejects the package
NoMessage == [ok |-> FALSE]

\* parse without the comparison of the CRC
parse_crc_unchecked(package) ==
    IF Len(package) < minPacketSize THEN [ok |-> FALSE]
    ELSE IF package[1] # 170 THEN [ok |-> FALSE]
    ELSE IF Len(package) # package[3] + minPacketSize THEN [ok |-> FALSE]
    ELSE IF package[2] \notin Devices THEN [ok |-> FALSE]
    ELSE [ok |-> TRUE, preamble |-> package[1], device |-> package[2],
          length |-> package[3], msg_id1 |-> package[4], msg_id2 |-> package[5],
          payload |-> SubSeq(package, 6, Len(package) - 2)]

RECURSIVE StripToPreamble(_)
\* the while loop of parse: <<>> when it returns 0 from inside the loop
StripToPreamble(package) ==
    IF package[1] = 170 THEN package
    ELSE IF Len(package) < minPacketSize THEN <<>>
    ELSE StripToPreamble(Tail(package))

parse(package) ==
    IF Len(package) < minPacketSize THEN NoMessage
    ELSE LET p == StripToPreamble(package)
             n == Len(p)
         IN  IF p = <<>> THEN NoMessage
             ELSE IF n # p[3] + minPacketSize THEN NoMessage
             ELSE IF p[2] \notin Devices THEN NoMessage
             ELSE IF SubSeq(p, n - 1, n) # crc16(SubSeq(p, 1, n - 2)) THEN NoMessage
             ELSE [ok |-> TRUE, preamble |-> p[1], device |-> p[2], length |-> p[3],
                   msg_id1 |-> p[4], msg_id2 |-> p[5], payload |-> SubSeq(p, 6, n - 2)]

\* build with the two identifiers in the other order
build_ids_swapped(device, msg_id2, msg_id1, payload) ==
    IF device \notin Devices THEN <<>>
    ELSE IF msg_id1 \notin 0..255 THEN <<>>
    ELSE IF msg_id2 \notin 0..255 THEN <<>>
    ELSE LET package == <<170, device, Len(payload), msg_id2, msg_id1>> \o payload
         IN  package \o crc16(package)

\* build returns 0 in the code when it rejects a field: <<>> here
build(device, msg_id2, msg_id1, payload) ==
    IF device \notin Devices THEN <<>>
    ELSE IF msg_id1 \notin 0..255 THEN <<>>
    ELSE IF msg_id2 \notin 0..255 THEN <<>>
    ELSE LET package == <<170, device, Len(payload), msg_id1, msg_id2>> \o payload
         IN  package \o crc16(package)

(***************************************************************************)
(* State.                                                                  *)
(***************************************************************************)
VARIABLES
    now,               \* time.time()
    pc,                \* the worker's position in __worker_thread
    working,           \* __working
    connected,         \* __connected
    broken,            \* broken[s]: transport s raises on every operation
    buf,               \* buf[s]: the bytes pending in the input buffer of side s
    ser_heater,        \* __ser_heater: None or Some(side)
    ser_controller,    \* __ser_controller: None or Some(side)
    write_lock_timer,  \* __write_lock_timer
    send_to_heater,    \* __send_to_heater: frames, each with the call that queued it
    heater_timer,      \* __heater_timer: None or Some(deadline)
    shutdown_request,  \* __shutdown_request
    shutdown_timer,    \* __shutdown_timer
    settings_timer,    \* __settings_timer
    status_timer,      \* __status_timer
    regs,              \* the timestamped registers
    caller,            \* the frame a caller thread has appended once and will append again
    world,             \* what the outside of the engine does in this behaviour
    codec,             \* the codec applied to an input: its arguments and results
    retries,           \* connect attempts that failed since stop was requested
    returned,          \* what the last call of get_heater_timer gave its caller
    session,           \* how far the auto-off deadline in force has been used
    off_since,         \* the heater has reported status1 = 0 since shutdown() was last called
    faults,            \* how many times a transport has failed
    arrivals,          \* how many chunks have arrived
    calls,             \* how many host API calls have been made
    last,              \* what the worker's last step did: its writes, the bytes discarded
    prevOut,           \* prevOut[s]: the last frame written to side s was the first
                       \* copy of a command that is queued twice
    owed,              \* origins of the requests delivered to the heater and not yet answered
    lockBy,            \* the event that last assigned write_lock_timer
    relTicks           \* loop iterations begun since a heater frame released a queued frame

vars == <<now, pc, working, connected, broken, buf, ser_heater, ser_controller,
          write_lock_timer, send_to_heater, heater_timer, shutdown_request,
          shutdown_timer, settings_timer, status_timer, regs, caller, world, codec, retries, returned, session, off_since,
          faults, arrivals, calls, last, prevOut, owed, lockBy, relTicks>>

\* the variables that belong to the transports, the clock and the caller threads
envVars == <<now, broken, buf, caller, world, codec, retries, returned, session, off_since, faults, arrivals, calls>>

(***************************************************************************)
(* State model: the registers of __start_working, each (None, None).       *)
(***************************************************************************)
NoReg == <<None, None>>

RegNames ==
    {"heater_mode", "heater_setpoint", "heater_ventilation", "heater_power_level",
     "heater_status1", "heater_status2", "heater_errors", "heater_temperature",
     "external_temperature", "battery_voltage", "flame_temperature",
     "controller_temperature",
     "d_status1", "d_status2", "d_counter1", "d_counter2", "d_defined_rev",
     "d_measured_rev", "d_fuel_pump1", "d_fuel_pump2", "d_chamber_temperature",
     "d_flame_temperature", "d_external_temperature", "d_heater_temperature",
     "d_battery_voltage"}

InitRegs ==
    [n \in RegNames \cup {"heater_software_version"} |->
        IF n = "heater_software_version" THEN <<None, None, None, None, None>>
        ELSE NoReg]

\* the two bytes taken low byte first
FromBytes2_little(payload, i) == payload[i + 1] + payload[i + 2] * 256

\* int.from_bytes(payload[i:i+2], 'big'), i counted from 0
FromBytes2(payload, i) == payload[i + 1] * 256 + payload[i + 2]

\* payload[6]/10 as a decimal: <<whole volts, tenths>>
DivTen(raw) == <<raw \div 10, raw % 10>>

\* what __process_message reads and writes
Engine ==
    [ser_heater |-> ser_heater, ser_controller |-> ser_controller,
     write_lock_timer |-> write_lock_timer, heater_timer |-> heater_timer,
     settings_timer |-> settings_timer, status_timer |-> status_timer,
     regs |-> regs]

(***************************************************************************)
(* Semantic decoder: __process_message.                                    *)
(***************************************************************************)
\* device 0x02
decode_diagnostic(e, m, t) ==
    IF m.msg_id2 = 1 /\ Len(m.payload) = 72
    THEN [e EXCEPT !.regs =
            [@ EXCEPT !["d_status1"] = <<Some(m.payload[1]), Some(t)>>,
                      !["d_status2"] = <<Some(m.payload[2]), Some(t)>>,
                      !["d_counter1"] = <<Some(FromBytes2(m.payload, 7)), Some(t)>>,
                      !["d_counter2"] = <<Some(FromBytes2(m.payload, 10)), Some(t)>>,
                      !["d_defined_rev"] = <<Some(m.payload[13]), Some(t)>>,
                      !["d_measured_rev"] = <<Some(m.payload[14]), Some(t)>>,
                      !["d_fuel_pump1"] = <<Some(m.payload[16]), Some(t)>>,
                      !["d_fuel_pump2"] = <<Some(m.payload[18]), Some(t)>>,
                      !["d_chamber_temperature"] = <<Some(FromBytes2(m.payload, 19)), Some(t)>>,
                      !["d_flame_temperature"] = <<Some(FromBytes2(m.payload, 21)), Some(t)>>,
                      !["d_external_temperature"] = <<Some(m.payload[26]), Some(t)>>,
                      !["d_heater_temperature"] = <<Some(m.payload[27]), Some(t)>>,
                      !["d_battery_voltage"] = <<Some(m.payload[29]), Some(t)>>]]
    ELSE e

\* a controller-origin frame that clears the write-lock as a heater frame does
controller_lock_cleared(e, t) == t

\* the write-lock deadline a controller-origin frame leaves
controller_lock(e, t) == t + write_lock_delay

\* a decoder of controller-origin frames that never cancels the auto-off deadline
decode_controller_keeps_timer(e, m, t) ==
    LET e1 == [e EXCEPT !.write_lock_timer = controller_lock(e, t)]
    IN  IF m.msg_id2 = 17 /\ Len(m.payload) = 1
        THEN [e1 EXCEPT !.regs["controller_temperature"] =
                             <<Some(m.payload[1]), Some(t)>>]
        ELSE e1

\* device 0x03: arms the write-lock, then dispatches on msg_id2
decode_controller(e, m, t) ==
    LET e1 == [e EXCEPT !.write_lock_timer = controller_lock(e, t)]
    IN  IF m.msg_id2 = 1 THEN [e1 EXCEPT !.heater_timer = None]
        ELSE IF m.msg_id2 = 2
             THEN IF m.length = 0 THEN e1 ELSE [e1 EXCEPT !.heater_timer = None]
        ELSE IF m.msg_id2 = 3 THEN [e1 EXCEPT !.heater_timer = None]
        ELSE IF m.msg_id2 = 17 /\ Len(m.payload) = 1
             THEN [e1 EXCEPT !.regs["controller_temperature"] =
                                  <<Some(m.payload[1]), Some(t)>>]
        ELSE e1

\* the settings registers written from a 6-byte payload (msg_id2 0x01 and 0x02)
apply_settings(e, m, t) ==
    IF Len(m.payload) = 6
    THEN [e EXCEPT !.regs =
            [@ EXCEPT !["heater_mode"] = <<Some(m.payload[3]), Some(t)>>,
                      !["heater_setpoint"] = <<Some(m.payload[4]), Some(t)>>,
                      !["heater_ventilation"] = <<Some(m.payload[5]), Some(t)>>,
                      !["heater_power_level"] = <<Some(m.payload[6]), Some(t)>>]]
    ELSE e

\* the status registers written from a 10-byte payload (msg_id2 0x0f)
apply_status(e, m, t) ==
    IF Len(m.payload) = 10
    THEN [e EXCEPT !.regs =
            [@ EXCEPT !["heater_status1"] = <<Some(m.payload[1]), Some(t)>>,
                      !["heater_status2"] = <<Some(m.payload[2]), Some(t)>>,
                      !["heater_errors"] = <<Some(m.payload[3]), Some(t)>>,
                      !["heater_temperature"] = <<Some(m.payload[4]), Some(t)>>,
                      !["external_temperature"] = <<Some(m.payload[5]), Some(t)>>,
                      !["battery_voltage"] = <<Some(DivTen(m.payload[7])), Some(t)>>,
                      !["flame_temperature"] = <<Some(FromBytes2(m.payload, 7)), Some(t)>>]]
    ELSE e

\* a heater-origin frame that leaves the write-lock as it is
heater_lock_kept(e, t) == e.write_lock_timer

\* the write-lock deadline a heater-origin frame leaves
heater_lock(e, t) == t

\* device 0x04: clears the write-lock, then dispatches on msg_id2
decode_heater(e, m, t) ==
    LET e1 == [e EXCEPT !.write_lock_timer = heater_lock(e, t)]
    IN  IF m.msg_id2 = 1 \/ m.msg_id2 = 2
        THEN [apply_settings(e1, m, t) EXCEPT !.settings_timer = t]
        ELSE IF m.msg_id2 = 6 /\ Len(m.payload) = 5
             THEN [e1 EXCEPT !.regs["heater_software_version"] =
                      <<Some(m.payload[1]), Some(m.payload[2]), Some(m.payload[3]),
                        Some(m.payload[4]), Some(t)>>]
        ELSE IF m.msg_id2 = 15
             THEN [apply_status(e1, m, t) EXCEPT !.status_timer = t]
        ELSE e1

\* a role bound to the side the frame is forwarded to
bound_side_forwarded(ser_message) == 3 - ser_message

\* the side a role is bound to when its first frame is read from ser_message
bound_side(ser_message) == ser_message

\* heater and controller port assignment
bind_roles(e, m, ser_message) ==
    [e EXCEPT !.ser_controller =
                  IF @ = None /\ m.device = 3 THEN Some(bound_side(ser_message)) ELSE @,
              !.ser_heater =
                  IF @ = None /\ m.device = 4 THEN Some(bound_side(ser_message)) ELSE @]

\* __process_message after new_message = self.parse(message)
apply_message(e, m, ser_message, t) ==
        IF ~m.ok THEN e
        ELSE LET e1 == bind_roles(e, m, ser_message)
             IN  IF m.device = 0 THEN e1
                 ELSE IF m.device = 2 THEN decode_diagnostic(e1, m, t)
                 ELSE IF m.device = 3 THEN decode_controller(e1, m, t)
                 ELSE IF m.device = 4 THEN decode_heater(e1, m, t)
                 ELSE e1

\* __process_message(message, ser_message) at time t, on engine record e
process_message(e, message, ser_message, t) ==
    apply_message(e, parse(message), ser_message, t)

(***************************************************************************)
(* Transports.                                                             *)
(***************************************************************************)
\* read(n): the first n bytes pending, fewer when the read times out
Take(seq, n) == SubSeq(seq, 1, IF n < Len(seq) THEN n ELSE Len(seq))
Drop(seq, n) == SubSeq(seq, (IF n < Len(seq) THEN n ELSE Len(seq)) + 1, Len(seq))

\* what ser_port.write can do: raise, or write the whole message or a part of it
WriteResults(to) == IF broken[to] THEN {"error"} ELSE {"ok", "short"}

\* one call of __write_message, as the step records it
WriteRec(to, message, tag, res) ==
    [to |-> to, m |-> message, tag |-> tag, res |-> res, prev |-> prevOut[to]]

\* __write_message clears __connected when the write raises
StillConnected(wrote) ==
    connected /\ \A i \in 1..Len(wrote) : wrote[i].res # "error"

\* whether the last frame that reached each side's wire is a first copy
OutAfter(wrote) ==
    [s \in Sides |->
        LET idx == {i \in 1..Len(wrote) : wrote[i].to = s /\ wrote[i].res # "error"}
        IN  IF idx = {} THEN prevOut[s]
            ELSE wrote[CHOOSE i \in idx : \A j \in idx : j <= i].tag = "first"]

Quiet == [op |-> "env", side |-> 0, wrote |-> <<>>, dropped |-> <<>>, device |-> None]
Did(op, s, wrote, dropped, device) ==
    [op |-> op, side |-> s, wrote |-> wrote, dropped |-> dropped, device |-> device]

\* the requests the heater has been sent and has not answered, oldest first
Owe(o, who) ==
    LET a == Append(o, [who |-> who, at |-> IF who = "panel" THEN now ELSE 0])
    IN  IF Len(a) > MaxOwed THEN Tail(a) ELSE a

(***************************************************************************)
(* The worker: __worker_thread, one action per block of the loop.          *)
(***************************************************************************)
SidePc(s) == IF s = 1 THEN "side1" ELSE "side2"
AfterSide(s) == IF s = 1 THEN "side2" ELSE "inject"

engineVars == <<ser_heater, ser_controller, write_lock_timer, heater_timer,
                settings_timer, status_timer, regs>>
timerVars == <<shutdown_request, shutdown_timer>>

\* while self.__working: if not self.__connected: self.__reconnect()
Loop ==
    /\ pc = "loop"
    /\ pc' = IF ~working THEN "done" ELSE IF ~connected THEN "connect" ELSE "side1"
    /\ relTicks' = IF working /\ connected /\ relTicks # None
                   THEN Some(IF Val(relTicks) < 2 THEN Val(relTicks) + 1 ELSE 2)
                   ELSE relTicks
    /\ last' = Did("loop", 0, <<>>, <<>>, None)
    /\ UNCHANGED <<envVars, engineVars, timerVars, working, connected,
                   send_to_heater, prevOut, owed, lockBy>>

\* __connect: both ports open, input buffers reset, write-lock and roles reset
ConnectOk ==
    /\ pc = "connect"
    /\ \A s \in Sides : ~broken[s]
    /\ buf' = [s \in Sides |-> <<>>]
    /\ write_lock_timer' = now
    /\ connected' = TRUE
    /\ ser_heater' = None
    /\ ser_controller' = None
    /\ pc' = "loop"
    /\ last' = Did("connect", 0, <<>>, buf[1] \o buf[2], None)
    /\ owed' = <<>>
    /\ lockBy' = "connect"
    /\ relTicks' = None
    /\ UNCHANGED <<now, broken, caller, world, codec, retries, returned, session, off_since, faults, arrivals, calls, working, send_to_heater,
                   heater_timer,
                   settings_timer, status_timer, regs, timerVars, prevOut>>

\* __connect: serial.Serial raises, time.sleep(10), try again
ConnectFail ==
    /\ pc = "connect"
    /\ \E s \in Sides : broken[s]
    /\ now + connect_retry_sleep <= MaxTime
    /\ now' = now + connect_retry_sleep
    /\ retries' = IF working THEN retries ELSE retries + 1
    /\ last' = Did("connect_fail", 0, <<>>, <<>>, None)
    /\ UNCHANGED <<pc, broken, buf, caller, world, codec, returned, session, off_since, faults, arrivals, calls, engineVars, timerVars, working,
                   connected, send_to_heater, prevOut, owed, lockBy, relTicks>>

\* __message_waiting raises OSError: __connected = False, 0 returned
SidePeekError(s) ==
    /\ pc = SidePc(s)
    /\ broken[s]
    /\ connected' = FALSE
    /\ pc' = AfterSide(s)
    /\ last' = Did("peek_error", s, <<>>, <<>>, None)
    /\ relTicks' = None
    /\ UNCHANGED <<envVars, engineVars, timerVars, working, send_to_heater,
                   prevOut, owed, lockBy>>

\* nothing waiting on side s
SideIdle(s) ==
    /\ pc = SidePc(s)
    /\ ~broken[s]
    /\ buf[s] = <<>>
    /\ pc' = AfterSide(s)
    /\ last' = Did("idle", s, <<>>, <<>>, None)
    /\ UNCHANGED <<envVars, engineVars, timerVars, working, connected,
                   send_to_heater, prevOut, owed, lockBy, relTicks>>

\* ser.read raises between in_waiting and the read: nothing catches it
SideReadError(s) ==
    /\ pc = SidePc(s)
    /\ ~broken[s]
    /\ buf[s] # <<>>
    /\ faults < world.faults
    /\ broken' = [broken EXCEPT ![s] = TRUE]
    /\ faults' = faults + 1
    /\ pc' = "dead"
    /\ last' = Did("read_error", s, <<>>, <<>>, None)
    /\ UNCHANGED <<now, buf, caller, world, codec, retries, returned, session, off_since, arrivals, calls, engineVars, timerVars, working, connected,
                   send_to_heater, prevOut, owed, lockBy, relTicks>>

\* the byte read is 0x1b: forwarded alone, continue
SideEscape(s) ==
    /\ pc = SidePc(s)
    /\ ~broken[s]
    /\ buf[s] # <<>>
    /\ Head(buf[s]) = 27
    /\ \E res \in WriteResults(Other(s)) :
         \E wrote \in {<<WriteRec(Other(s), <<27>>, "esc", res)>>} :
             /\ connected' = StillConnected(wrote)
             /\ prevOut' = OutAfter(wrote)
             /\ last' = Did("escape", s, wrote, <<>>, None)
             /\ relTicks' = IF StillConnected(wrote) THEN relTicks ELSE None
    /\ buf' = [buf EXCEPT ![s] = Tail(@)]
    /\ pc' = "loop"
    /\ UNCHANGED <<now, broken, caller, world, codec, retries, returned, session, off_since, faults, arrivals, calls, engineVars, timerVars, working,
                   send_to_heater, owed, lockBy>>

\* what reset_input_buffer leaves pending after a byte that is not 0xaa
flushed(pending) == <<>>

\* the byte read is neither 0x1b nor 0xaa: reset_input_buffer, continue
SideGarbage(s) ==
    /\ pc = SidePc(s)
    /\ ~broken[s]
    /\ buf[s] # <<>>
    /\ Head(buf[s]) \notin {27, 170}
    /\ buf' = [buf EXCEPT ![s] = flushed(Tail(buf[s]))]
    /\ pc' = "loop"
    /\ last' = Did("garbage", s, <<>>,
                   SubSeq(buf[s], 1, Len(buf[s]) - Len(flushed(Tail(buf[s])))), None)
    /\ UNCHANGED <<now, broken, caller, world, codec, retries, returned, session, off_since, faults, arrivals, calls, engineVars, timerVars, working,
                   connected, send_to_heater, prevOut, owed, lockBy, relTicks>>

\* the frame parsed is a heater status report with status1 = 0
reports_off(m) ==
    /\ m.ok
    /\ m.device = 4
    /\ m.msg_id2 = 15
    /\ Len(m.payload) = 10
    /\ m.payload[1] = 0

\* message = read(1) + read(2) + read(message[-1] + 4)
candidate(pending) ==
    LET head == Take(pending, 3)
    IN  head \o Take(Drop(pending, 3), head[Len(head)] + 4)

\* the byte read is 0xaa: the candidate frame is forwarded, then processed
SideFrame(s) ==
    /\ pc = SidePc(s)
    /\ ~broken[s]
    /\ buf[s] # <<>>
    /\ Head(buf[s]) = 170
    /\ \E message \in {candidate(buf[s])} :
       \E m \in {parse(message)} :
       \E e \in {apply_message(Engine, m, s, now)} :
       \E device \in {IF m.ok THEN Some(m.device) ELSE None} :
           /\ buf' = [buf EXCEPT ![s] = Drop(@, Len(message))]
           /\ \E res \in WriteResults(Other(s)) :
                \E wrote \in {<<WriteRec(Other(s), message, "fwd", res)>>} :
                    /\ connected' = StillConnected(wrote)
                    /\ prevOut' = OutAfter(wrote)
                    /\ last' = Did("frame", s, wrote, <<>>, device)
                    /\ owed' = IF device = Some(3) /\ res # "error" THEN Owe(owed, "panel")
                               ELSE IF device = Some(4) /\ owed # <<>> THEN Tail(owed)
                               ELSE owed
                    /\ relTicks' =
                         IF ~StillConnected(wrote) THEN None
                         ELSE IF /\ device = Some(4)
                                 /\ lockBy = "ctrl"
                                 /\ write_lock_timer > now
                                 /\ send_to_heater # <<>>
                              THEN Some(0)
                         ELSE relTicks
           /\ ser_heater' = e.ser_heater
           /\ ser_controller' = e.ser_controller
           /\ write_lock_timer' = e.write_lock_timer
           /\ heater_timer' = e.heater_timer
           /\ settings_timer' = e.settings_timer
           /\ status_timer' = e.status_timer
           /\ regs' = e.regs
           /\ lockBy' = IF device = Some(3) THEN "ctrl"
                        ELSE IF device = Some(4) THEN "heater" ELSE lockBy
           /\ session' = IF e.heater_timer = None THEN "none"
                         ELSE IF reports_off(m) /\ session = "expired" THEN "over"
                         ELSE session
           /\ off_since' = (reports_off(m) \/ off_since)
    /\ pc' = AfterSide(s)
    /\ UNCHANGED <<now, broken, caller, world, codec, retries, returned, faults, arrivals,
                   calls, timerVars, working, send_to_heater>>

\* a worker that never looks at the write-lock
lock_ignored(t) == TRUE

\* self.__write_lock_timer <= time.time()
lock_clear(t) == write_lock_timer <= t

\* where a host frame is written: the heater side once bound, else both adapters
inject_targets == IF ser_heater # None THEN <<Val(ser_heater)>> ELSE <<1, 2>>

\* the queue after pop(0)
popped(queue) == Tail(queue)

\* every assignment of write results to the transports written to
WriteOutcomes(targets) ==
    {r \in [1..Len(targets) -> {"ok", "short", "error"}] :
        \A i \in 1..Len(targets) : r[i] \in WriteResults(targets[i])}

\* one queued frame is written when the queue is not empty and the lock is clear
Inject ==
    /\ pc = "inject"
    /\ pc' = "autooff"
    /\ IF Len(send_to_heater) > 0 /\ lock_clear(now)
       THEN \E entry \in {Head(send_to_heater)} :
            \E targets \in {inject_targets} :
                /\ send_to_heater' = popped(send_to_heater)
                /\ \E r \in WriteOutcomes(targets) :
                   \E wrote \in {[i \in 1..Len(targets) |->
                                     WriteRec(targets[i], entry.m, entry.tag, r[i])]} :
                         /\ connected' = StillConnected(wrote)
                         /\ prevOut' = OutAfter(wrote)
                         /\ last' = Did("inject", 0, wrote, <<>>, None)
                         /\ owed' = IF \E i \in 1..Len(wrote) : wrote[i].res # "error"
                                    THEN Owe(owed, "host") ELSE owed
                /\ write_lock_timer' = now + write_lock_delay
                /\ lockBy' = "host"
                /\ relTicks' = None
       ELSE /\ last' = Did("no_inject", 0, <<>>, <<>>, None)
            /\ UNCHANGED <<send_to_heater, connected, prevOut, owed, write_lock_timer,
                           lockBy, relTicks>>
    /\ UNCHANGED <<envVars, working, ser_heater, ser_controller, heater_timer,
                   settings_timer, status_timer, regs, timerVars>>

\* if self.__heater_timer: if time.time() >= self.__heater_timer: self.shutdown()
AutoOff ==
    /\ pc = "autooff"
    /\ pc' = "shutdown"
    /\ shutdown_request' =
         IF heater_timer # None /\ now >= Val(heater_timer) THEN TRUE
         ELSE shutdown_request
    /\ session' = IF heater_timer # None /\ now >= Val(heater_timer) /\ session = "none"
                  THEN "expired" ELSE session
    /\ off_since' = IF heater_timer # None /\ now >= Val(heater_timer) THEN FALSE
                    ELSE off_since
    /\ last' = Did("autooff", 0, <<>>, <<>>, None)
    /\ UNCHANGED <<now, broken, buf, caller, world, codec, retries, returned, faults,
                   arrivals, calls, engineVars, shutdown_timer, working, connected,
                   send_to_heater, prevOut, owed, lockBy, relTicks>>

OffFrame == build(3, 3, 0, <<>>)
AskStatusFrame == build(3, 15, 0, <<>>)
AskSettingsFrame == build(3, 2, 0, <<>>)

\* self.__send_to_heater.append(message), unless build returned 0
appended(queue, message, tag) ==
    IF message # <<>> THEN Append(queue, [m |-> message, tag |-> tag]) ELSE queue

\* the shutdown retry block
Shutdown ==
    /\ pc = "shutdown"
    /\ pc' = "status"
    /\ IF shutdown_request /\ regs["heater_status1"][1] = Some(0)
       THEN /\ shutdown_request' = FALSE
            /\ UNCHANGED <<send_to_heater, shutdown_timer>>
       ELSE IF shutdown_request /\ now > shutdown_timer + shutdown_delay
       THEN /\ Len(send_to_heater) < MaxQueue
            /\ send_to_heater' = appended(send_to_heater, OffFrame, "off")
            /\ shutdown_timer' = now
            /\ UNCHANGED shutdown_request
       ELSE UNCHANGED <<send_to_heater, shutdown_timer, shutdown_request>>
    /\ last' = Did("shutdown", 0, <<>>, <<>>, None)
    /\ UNCHANGED <<envVars, engineVars, working, connected, prevOut, owed, lockBy,
                   relTicks>>

\* the status poll block
Status ==
    /\ pc = "status"
    /\ pc' = "settings"
    /\ IF now >= status_timer + status_delay /\ lock_clear(now)
       THEN /\ Len(send_to_heater) < MaxQueue
            /\ send_to_heater' = appended(send_to_heater, AskStatusFrame, "status")
       ELSE UNCHANGED send_to_heater
    /\ last' = Did("status", 0, <<>>, <<>>, None)
    /\ UNCHANGED <<envVars, engineVars, timerVars, working, connected, prevOut, owed,
                   lockBy, relTicks>>

\* the settings poll block
Settings ==
    /\ pc = "settings"
    /\ pc' = "loop"
    /\ IF now >= settings_timer + settings_delay /\ lock_clear(now)
       THEN /\ Len(send_to_heater) < MaxQueue
            /\ send_to_heater' = appended(send_to_heater, AskSettingsFrame, "settings")
       ELSE UNCHANGED send_to_heater
    /\ last' = Did("settings", 0, <<>>, <<>>, None)
    /\ UNCHANGED <<envVars, engineVars, timerVars, working, connected, prevOut, owed,
                   lockBy, relTicks>>

(***************************************************************************)
(* Host API, on caller threads.  The model follows the engine while its    *)
(* worker runs.                                                            *)
(***************************************************************************)
Alive == pc \notin {"done", "dead"}

workerVars == <<pc, working, connected, prevOut, owed, lockBy, relTicks>>

\* a command that appends its frame once: asks_for_status, asks_for_settings, ...
\* The entry records whether the engine was disconnected at the call
HostOnce(message) ==
    /\ Alive
    /\ "ask" \in world.api
    /\ calls < world.calls
    /\ Len(send_to_heater) < MaxQueue
    /\ send_to_heater' = appended(send_to_heater, message,
                                  IF connected THEN "host" ELSE "offline")
    /\ calls' = calls + 1
    /\ UNCHANGED last
    /\ UNCHANGED <<now, broken, buf, caller, world, codec, retries, returned, session, off_since, faults, arrivals, engineVars,
                   timerVars, workerVars>>

\* timer * 60 seconds from now
timer_deadline(timer) == now + timer * 60

\* turn_on_heater, change_settings, turn_on_ventilation: the timer, the first append
HostTwiceFirst(message, timer) ==
    /\ Alive
    /\ "turn_on" \in world.api
    /\ timer \in world.timers
    /\ caller = None
    /\ calls < world.calls
    /\ Len(send_to_heater) + 2 <= MaxQueue
    /\ calls' = calls + 1
    /\ heater_timer' = IF timer # None /\ Val(timer) # 0
                       THEN Some(timer_deadline(Val(timer))) ELSE heater_timer
    /\ send_to_heater' = appended(send_to_heater, message, "first")
    /\ caller' = IF message # <<>> THEN Some(message) ELSE None
    /\ session' = IF timer # None /\ Val(timer) # 0 THEN "none"
                  ELSE IF session = "over" THEN "reused"
                  ELSE session
    /\ UNCHANGED last
    /\ UNCHANGED <<now, broken, buf, world, codec, retries, returned, off_since, faults,
                   arrivals, ser_heater, ser_controller,
                   write_lock_timer, settings_timer, status_timer, regs, timerVars,
                   workerVars>>

\* the second append of the same frame
HostTwiceSecond ==
    /\ Alive
    /\ caller # None
    /\ Len(send_to_heater) < MaxQueue
    /\ send_to_heater' = appended(send_to_heater, Val(caller), "second")
    /\ caller' = None
    /\ UNCHANGED last
    /\ UNCHANGED <<now, broken, buf, world, codec, retries, returned, session, off_since, faults, arrivals, calls, engineVars,
                   timerVars, workerVars>>

\* payload of turn_on_heater and change_settings
settings_payload(mode, setpoint, ventilation, power) ==
    <<255, 255, mode, setpoint, ventilation, power>>

TurnOnHeaterFrame(mode, setpoint, ventilation, power) ==
    build(3, 1, 0, settings_payload(mode, setpoint, ventilation, power))
ChangeSettingsFrame(mode, setpoint, ventilation, power) ==
    build(3, 2, 0, settings_payload(mode, setpoint, ventilation, power))
TurnOnVentilationFrame(power) == build(3, 35, 0, <<255, 255, power, 15>>)

\* shutdown()
HostShutdown ==
    /\ Alive
    /\ "shutdown" \in world.api
    /\ calls < world.calls
    /\ calls' = calls + 1
    /\ shutdown_request' = TRUE
    /\ off_since' = FALSE
    /\ UNCHANGED last
    /\ UNCHANGED <<now, broken, buf, caller, world, codec, retries, returned, session,
                   faults, arrivals, engineVars,
                   shutdown_timer, send_to_heater, workerVars>>

\* set_heater_timer(timer)
SetHeaterTimer(timer) ==
    /\ Alive
    /\ "timer" \in world.api
    /\ calls < world.calls
    /\ calls' = calls + 1
    /\ heater_timer' = Some(timer_deadline(timer))
    /\ session' = "none"
    /\ UNCHANGED last
    /\ UNCHANGED <<now, broken, buf, caller, world, codec, retries, returned, off_since,
                   faults, arrivals, ser_heater, ser_controller, write_lock_timer,
                   settings_timer, status_timer, regs, timerVars, send_to_heater,
                   workerVars>>

\* no call of get_heater_timer has returned or raised yet
NotCalled == [called |-> FALSE, raised |-> FALSE, value |-> None]

\* get_heater_timer(): self.__heater does not exist, the read raises
\* AttributeError in the caller's thread
GetHeaterTimer ==
    /\ Alive
    /\ "timer" \in world.api
    /\ ~returned.called
    /\ returned' = [called |-> TRUE, raised |-> TRUE, value |-> None]
    /\ UNCHANGED last
    /\ UNCHANGED <<now, broken, buf, caller, world, codec, retries, session, off_since,
                   faults, arrivals, calls, engineVars, timerVars, send_to_heater,
                   workerVars>>

\* __stop_working: the flag; the join only waits.  The worker reads the flag
\* at the top of its loop only, so a stop requested during an iteration is
\* taken to be requested before the next one begins
Stop ==
    /\ pc \in {"loop", "connect"}
    /\ world.stops
    /\ working
    /\ working' = FALSE
    /\ UNCHANGED last
    /\ UNCHANGED <<envVars, engineVars, timerVars, send_to_heater, pc, connected,
                   prevOut, owed, lockBy, relTicks>>

(***************************************************************************)
(* The clock and the transports.                                           *)
(***************************************************************************)
Tick ==
    /\ Alive
    /\ world.ticks
    /\ now + Quantum <= world.horizon
    /\ now' = now + Quantum
    /\ UNCHANGED last
    /\ UNCHANGED <<broken, buf, caller, world, codec, retries, returned, session, off_since, faults, arrivals, calls, engineVars, timerVars,
                   send_to_heater, workerVars>>

\* a longer time passes
LongTick ==
    /\ Alive
    /\ world.longticks
    /\ now + LongQuantum <= MaxLongTime
    /\ now' = now + LongQuantum
    /\ UNCHANGED last
    /\ UNCHANGED <<broken, buf, caller, world, codec, retries, returned, session, off_since, faults, arrivals, calls, engineVars, timerVars,
                   send_to_heater, workerVars>>

\* bytes arrive on side s.  The worker looks at a side once per iteration, so
\* bytes that arrive during an iteration are taken to arrive before it begins
Arrive(s, chunk) ==
    /\ pc \in {"loop", "connect"}
    /\ Len(buf[s]) <= MaxBacklog
    /\ arrivals < world.arrivals
    /\ chunk \in world.chunks
    /\ arrivals' = arrivals + 1
    /\ buf' = [buf EXCEPT ![s] = @ \o chunk]
    /\ UNCHANGED last
    /\ UNCHANGED <<now, broken, caller, world, codec, retries, returned, session, off_since, faults, calls, engineVars, timerVars,
                   send_to_heater, workerVars>>

\* side s starts to fail.  The worker touches the transports in the two side
\* blocks and in the injection block, so a failure during the other blocks is
\* taken to happen before the next side block
Break(s) ==
    /\ pc \in {"side1", "side2", "inject"}
    /\ ~broken[s]
    /\ faults < world.faults
    /\ broken' = [broken EXCEPT ![s] = TRUE]
    /\ faults' = faults + 1
    /\ UNCHANGED last
    /\ UNCHANGED <<now, buf, caller, world, codec, retries, returned, session, off_since, arrivals, calls, engineVars, timerVars, send_to_heater,
                   workerVars>>

\* side s works again; only __connect can tell
Repair(s) ==
    /\ pc = "connect"
    /\ broken[s]
    /\ broken' = [broken EXCEPT ![s] = FALSE]
    /\ UNCHANGED last
    /\ UNCHANGED <<now, buf, caller, world, codec, retries, returned, session, off_since, faults, arrivals, calls, engineVars, timerVars,
                   send_to_heater, workerVars>>

(***************************************************************************)
(* The frames of the model.                                                *)
(***************************************************************************)
\* the panel asks for status
PanelAskStatus == build(3, 15, 0, <<>>)
\* the heater's status acknowledgement without payload
HeaterAck == build(4, 15, 0, <<>>)
\* the heater confirms a turn off request
HeaterOff == build(4, 3, 0, <<>>)
\* a frame whose CRC does not verify
BadCrcFrame == <<170, 4, 0, 0, 15, 0, 0>>
\* a frame from a device code parse does not know, with its CRC
BadDeviceFrame == <<170, 5, 0, 0, 15, 208, 124>>
\* a frame cut short: the reads time out before its end
Truncated == <<170, 4, 0, 0>>
\* a byte that is neither a preamble nor the escape byte
Garbage == <<255>>
Escape == <<27>>

\* the heater reports status: running, and off (status1 = 0)
HeaterStatusOn == build(4, 15, 0, <<3, 0, 0, 24, 5, 0, 140, 1, 44, 0>>)
HeaterStatusOff == build(4, 15, 0, <<0, 0, 0, 24, 5, 0, 140, 1, 44, 0>>)
\* the heater reports settings
HeaterSettings == build(4, 2, 0, <<255, 255, 4, 15, 0, 6>>)
\* the panel turns the heater on, changes settings, asks for settings, turns it off
PanelTurnOn == build(3, 1, 0, <<255, 255, 4, 15, 0, 6>>)
PanelSettings == build(3, 2, 0, <<255, 255, 4, 15, 0, 6>>)
PanelAskSettings == build(3, 2, 0, <<>>)
PanelOff == build(3, 3, 0, <<>>)

\* what arrives on a clean line, on a line with noise, from a heater that
\* reports, and from a panel in use
Frames == {PanelAskStatus, HeaterOff}
Noise == {Garbage, Escape, BadCrcFrame, BadDeviceFrame, Truncated, HeaterOff}
Reports == {HeaterStatusOn, HeaterStatusOff, HeaterSettings, HeaterAck}
PanelUse ==
    {PanelTurnOn, PanelSettings, PanelAskSettings, PanelOff, HeaterStatusOn,
     HeaterStatusOff}
Chunks == Frames \cup Noise \cup Reports \cup PanelUse

\* The behaviours explored, each bounding what happens outside the engine:
\* traffic on both sides with host calls at one instant; the same with the
\* clock advancing; a transport that fails; a line that carries noise; a
\* shutdown request while the heater reports; an auto-off deadline while the
\* panel is in use.
Worlds ==
    { [ticks |-> FALSE, horizon |-> MaxTime, longticks |-> FALSE, faults |-> 0, stops |-> FALSE,
       arrivals |-> MaxArrivals, calls |-> MaxCalls, api |-> {"ask", "turn_on"},
       timers |-> {None}, chunks |-> Frames],
      [ticks |-> TRUE, horizon |-> MaxTime, longticks |-> FALSE, faults |-> 0, stops |-> FALSE,
       arrivals |-> MaxArrivals - 1, calls |-> MaxCalls, api |-> {"ask", "turn_on"},
       timers |-> {None}, chunks |-> Frames],
      [ticks |-> FALSE, horizon |-> MaxTime, longticks |-> FALSE, faults |-> MaxFaults, stops |-> TRUE,
       arrivals |-> MaxArrivals - 1, calls |-> MaxCalls, api |-> {"ask", "turn_on"},
       timers |-> {None}, chunks |-> Frames],
      [ticks |-> FALSE, horizon |-> MaxTime, longticks |-> FALSE, faults |-> 0, stops |-> FALSE,
       arrivals |-> MaxArrivals, calls |-> MaxCalls - 1, api |-> {"ask", "turn_on"},
       timers |-> {None}, chunks |-> Noise],
      [ticks |-> TRUE, horizon |-> 2 * MaxTime, longticks |-> FALSE, faults |-> 0, stops |-> FALSE,
       arrivals |-> MaxArrivals - 2, calls |-> MaxCalls, api |-> {"shutdown"},
       timers |-> {None}, chunks |-> Reports],
      [ticks |-> FALSE, horizon |-> MaxTime, longticks |-> TRUE, faults |-> 0, stops |-> FALSE,
       arrivals |-> MaxArrivals - 2, calls |-> MaxCalls, api |-> {"timer", "turn_on"},
       timers |-> {None, Some(1)}, chunks |-> PanelUse] }

\* turn_on_heater(mode=4, power=6)
HeatOnFrame == TurnOnHeaterFrame(4, 15, 0, 6)

(***************************************************************************)
(* The engine after __init__: connected, worker started, time 0.           *)
(***************************************************************************)
Init ==
    /\ now = 0
    /\ pc = "loop"
    /\ working = TRUE
    /\ connected = TRUE
    /\ broken = [s \in Sides |-> FALSE]
    /\ buf = [s \in Sides |-> <<>>]
    /\ ser_heater = None
    /\ ser_controller = None
    /\ write_lock_timer = now
    /\ send_to_heater = <<>>
    /\ heater_timer = None
    /\ shutdown_request = FALSE
    /\ shutdown_timer = now
    /\ settings_timer = now
    /\ status_timer = now
    /\ regs = InitRegs
    /\ caller = None
    /\ world \in Worlds
    /\ codec = None
    /\ retries = 0
    /\ returned = NotCalled
    /\ session = "none"
    /\ off_since = FALSE
    /\ faults = 0
    /\ calls = 0
    /\ arrivals = 0
    /\ last = Quiet
    /\ prevOut = [s \in Sides |-> FALSE]
    /\ owed = <<>>
    /\ lockBy = "connect"
    /\ relTicks = None

Worker ==
    \/ Loop
    \/ ConnectOk
    \/ ConnectFail
    \/ \E s \in Sides : SidePeekError(s)
    \/ \E s \in Sides : SideIdle(s)
    \/ \E s \in Sides : SideReadError(s)
    \/ \E s \in Sides : SideEscape(s)
    \/ \E s \in Sides : SideGarbage(s)
    \/ \E s \in Sides : SideFrame(s)
    \/ Inject
    \/ AutoOff
    \/ Shutdown
    \/ Status
    \/ Settings

Next ==
    \/ Worker
    \/ Tick
    \/ LongTick
    \/ \E s \in Sides, chunk \in Chunks : Arrive(s, chunk)
    \/ \E s \in Sides : Break(s)
    \/ \E s \in Sides : Repair(s)
    \/ HostOnce(AskStatusFrame)
    \/ \E timer \in {None, Some(1)} : HostTwiceFirst(HeatOnFrame, timer)
    \/ HostTwiceSecond
    \/ HostShutdown
    \/ SetHeaterTimer(1)
    \/ GetHeaterTimer
    \/ Stop

Spec == Init /\ [][Next]_vars

(***************************************************************************)
(* The worker under a fair schedule: it always takes its next step, while  *)
(* side 1 may deliver an escape byte or a stray byte before every          *)
(* iteration.                                                              *)
(***************************************************************************)
\* one byte arrives on side 1 before an iteration begins: 0x1b, or a byte that
\* is neither 0x1b nor 0xaa
Flood(chunk) ==
    /\ pc = "loop"
    /\ buf[1] = <<>>
    /\ chunk \in {Escape, Garbage}
    /\ buf' = [buf EXCEPT ![1] = chunk]
    /\ UNCHANGED last
    /\ UNCHANGED <<now, broken, caller, world, codec, retries, returned, session, off_since,
                   faults, arrivals, calls, engineVars, timerVars, send_to_heater,
                   workerVars>>

\* a heater frame arrives on side 2, a host command is queued and the polls
\* fall due
Busy ==
    [ticks |-> TRUE, horizon |-> Quantum, longticks |-> FALSE, faults |-> 0,
     stops |-> FALSE, arrivals |-> 1, calls |-> 1, api |-> {"ask"}, timers |-> {None},
     chunks |-> {HeaterOff, HeaterStatusOn}]

InitLive ==
    /\ now = 0
    /\ pc = "loop"
    /\ working = TRUE
    /\ connected = TRUE
    /\ broken = [s \in Sides |-> FALSE]
    /\ buf = [s \in Sides |-> <<>>]
    /\ ser_heater = None
    /\ ser_controller = None
    /\ write_lock_timer = now
    /\ send_to_heater = <<>>
    /\ heater_timer = None
    /\ shutdown_request = FALSE
    /\ shutdown_timer = now
    /\ settings_timer = now
    /\ status_timer = now
    /\ regs = InitRegs
    /\ caller = None
    /\ world = Busy
    /\ codec = None
    /\ retries = 0
    /\ returned = NotCalled
    /\ session = "none"
    /\ off_since = FALSE
    /\ faults = 0
    /\ calls = 0
    /\ arrivals = 0
    /\ last = Quiet
    /\ prevOut = [s \in Sides |-> FALSE]
    /\ owed = <<>>
    /\ lockBy = "connect"
    /\ relTicks = None

\* the worker's steps while both transports work
WorkerLive ==
    \/ Loop
    \/ \E s \in Sides : SideIdle(s)
    \/ SideEscape(1)
    \/ SideGarbage(1)
    \/ SideFrame(2)
    \/ Inject
    \/ AutoOff
    \/ Shutdown
    \/ Status
    \/ Settings

NextLive ==
    \/ WorkerLive
    \/ Tick
    \/ \E chunk \in Chunks : Arrive(2, chunk)
    \/ \E chunk \in {Escape, Garbage} : Flood(chunk)
    \/ HostOnce(AskStatusFrame)

\* the worker thread is scheduled: it goes on from the block it is in to
\* another one
Advance ==
    /\ pc' \in {"loop", "side1", "side2", "inject", "autooff", "shutdown", "status",
                "settings"}
    /\ pc' # pc

SpecLive == InitLive /\ [][NextLive]_vars /\ WF_pc(Advance)

(***************************************************************************)
(* The codec on its own: build applied to arguments, parse applied to the  *)
(* frame built.                                                            *)
(***************************************************************************)
\* the identifiers and the payloads the codec is applied to: none, one
\* preamble byte, the settings and the status payloads, and the longest
\* payload a frame can carry
CodecIds == {0, 1, 2, 15, 255}
LongestPayload == [i \in 1..255 |-> (7 * i) % 256]
CodecPayloads ==
    { <<>>, <<170>>, <<255, 255, 4, 15, 0, 6>>,
      <<3, 0, 0, 24, 5, 0, 140, 1, 44, 0>>, LongestPayload }

\* a world in which nothing happens outside the codec
Still ==
    [ticks |-> FALSE, horizon |-> 0, longticks |-> FALSE, faults |-> 0,
     stops |-> FALSE, arrivals |-> 0, calls |-> 0, api |-> {}, timers |-> {},
     chunks |-> {}]

InitCodec ==
    /\ now = 0
    /\ pc = "done"
    /\ working = FALSE
    /\ connected = FALSE
    /\ broken = [s \in Sides |-> FALSE]
    /\ buf = [s \in Sides |-> <<>>]
    /\ ser_heater = None
    /\ ser_controller = None
    /\ write_lock_timer = 0
    /\ send_to_heater = <<>>
    /\ heater_timer = None
    /\ shutdown_request = FALSE
    /\ shutdown_timer = 0
    /\ settings_timer = 0
    /\ status_timer = 0
    /\ regs = InitRegs
    /\ caller = None
    /\ world = Still
    /\ retries = 0
    /\ returned = NotCalled
    /\ session = "none"
    /\ off_since = FALSE
    /\ faults = 0
    /\ calls = 0
    /\ arrivals = 0
    /\ last = Quiet
    /\ prevOut = [s \in Sides |-> FALSE]
    /\ owed = <<>>
    /\ lockBy = "connect"
    /\ relTicks = None
    /\ codec \in [stage : {"args"}, device : Devices, msg_id1 : CodecIds,
                   msg_id2 : CodecIds, payload : CodecPayloads,
                   frame : {<<>>}, message : {NoMessage}]

engineAll ==
    <<now, pc, working, connected, broken, buf, ser_heater, ser_controller,
      write_lock_timer, send_to_heater, heater_timer, shutdown_request,
      shutdown_timer, settings_timer, status_timer, regs, caller, world, retries, returned, session, off_since,
      faults, arrivals, calls, last, prevOut, owed, lockBy, relTicks>>

\* build(device, msg_id2, msg_id1, payload)
Build ==
    /\ codec.stage = "args"
    /\ codec' = [codec EXCEPT !.stage = "built",
                              !.frame = build(codec.device, codec.msg_id2,
                                              codec.msg_id1, codec.payload)]
    /\ UNCHANGED engineAll

\* parse(package) of the frame built
Parse ==
    /\ codec.stage = "built"
    /\ codec' = [codec EXCEPT !.stage = "parsed", !.message = parse(codec.frame)]
    /\ UNCHANGED engineAll

NextCodec == Build \/ Parse

SpecCodec == InitCodec /\ [][NextCodec]_vars

(***************************************************************************)
(* Properties.                                                             *)
(***************************************************************************)
\* the step is the injection block writing a queued frame
Injects == pc = "inject" /\ pc' = "autooff" /\ last'.op = "inject"
\* the step is a side block that parsed a valid frame of the device
Parses(device) ==
    /\ pc \in {"side1", "side2"}
    /\ pc' # pc
    /\ last'.op = "frame"
    /\ last'.device = Some(device)
\* the step is a successful __connect
Connects == pc = "connect" /\ pc' = "loop" /\ last'.op = "connect"

\* C1: no frame taken from the injection queue is written at a moment when the
\* write-lock is held, that is when now < write_lock_timer
C1_NoInjectionUnderLock == [][Injects => write_lock_timer <= now]_vars

\* a queued frame has been written after a controller-origin frame armed the lock
C1_Witness ==
    /\ last.op = "inject"
    /\ last.wrote # <<>>
    /\ ser_controller # None

\* C2: once a panel frame has been forwarded, no queued frame is written before
\* the heater has answered that frame or 10 s have passed since it, also when
\* the heater still owes the reply to an earlier injected frame
C2_PanelFrameAnsweredFirst ==
    [][Injects => \A i \in 1..Len(owed) :
                     owed[i].who = "panel" => owed[i].at + write_lock_delay <= now]_vars

\* C3: while the write-lock is held, nothing but a heater-origin frame moves its
\* deadline earlier: no injection, no other frame, no transport error, no reconnect
C3_OnlyHeaterReleases ==
    [][(lockBy = "ctrl" /\ write_lock_timer > now /\ ~Parses(4))
          => write_lock_timer' >= write_lock_timer]_vars

\* C3 as amended: while the write-lock is held, nothing but a heater-origin frame
\* or a reconnect moves its deadline earlier, and a reconnect sets it to now
C3_HeaterOrReconnectReleases ==
    [][/\ (write_lock_timer > now /\ ~Parses(4) /\ ~Connects)
            => write_lock_timer' >= write_lock_timer
       /\ Connects => write_lock_timer' = now']_vars

\* the lock is held for a controller-origin frame while a transport has failed and
\* a queued frame waits
C3_Witness ==
    /\ lockBy = "ctrl"
    /\ write_lock_timer > now
    /\ ~connected
    /\ send_to_heater # <<>>

\* C4: when a frame is queued and the lock is held for a controller-origin
\* frame, a heater-origin frame clears the lock and the oldest queued frame is
\* written within the worker's next tick, while the link stays connected (the
\* panel and the heater being on different sides)
C4_WrittenWithinNextTick ==
    (relTicks # None /\ ser_heater # ser_controller) => Val(relTicks) < 2

\* C4 as amended: a heater-origin frame sets the deadline to now, and the next
\* time the worker reaches its injection block with no controller-origin frame
\* parsed since, it takes the oldest queued frame and issues its write
C4_HeaterFrameReleasesQueue ==
    [][/\ Parses(4) => write_lock_timer' = now'
       /\ (pc = "inject" /\ pc' = "autooff" /\ lockBy = "heater" /\ send_to_heater # <<>>)
            => /\ last'.op = "inject"
               /\ last'.wrote # <<>>
               /\ \A i \in DOMAIN last'.wrote : last'.wrote[i].m = Head(send_to_heater).m
               /\ send_to_heater' = Tail(send_to_heater)]_vars

\* a heater-origin frame has released the lock held for a controller-origin frame
\* and the worker is at its injection block with the queued frame
C4_Witness ==
    /\ relTicks # None
    /\ pc = "inject"
    /\ lockBy = "heater"
    /\ send_to_heater # <<>>

\* C5: a frame leaves the injection queue only by being written in full, without
\* error, while the engine is connected
C5_LeavesOnlyWhenWritten ==
    [][Len(send_to_heater') < Len(send_to_heater)
         => /\ connected
            /\ last'.op = "inject"
            /\ \A i \in DOMAIN last'.wrote : last'.wrote[i].res = "ok"]_vars

\* C6: the two copies of a command that is queued twice are adjacent in the queue:
\* nothing is queued after the first copy before the second
C6_CopiesAdjacent ==
    \A i \in 1..(Len(send_to_heater) - 1) :
        send_to_heater[i].tag = "first" => send_to_heater[i + 1].tag = "second"

\* C7: after turn_on_heater(mode=4, power=6) nothing is written to the heater side
\* between the two copies: the frame that follows the first copy there is neither
\* a forwarded panel frame nor another queued frame, it is the second copy
C7_BackToBack ==
    [][(/\ pc' # pc
        /\ caller = None
        /\ send_to_heater # <<>>
        /\ Head(send_to_heater).tag = "second")
       => \A i \in DOMAIN last'.wrote :
              (/\ last'.wrote[i].prev
               /\ last'.wrote[i].res # "error"
               /\ ser_heater' = Some(last'.wrote[i].to))
              => last'.wrote[i].tag = "second"]_vars

\* a frame as the protocol defines it: preamble, known device, the length its
\* header states, the CRC of its bytes
WellFormed(message) ==
    /\ Len(message) >= 7
    /\ message[1] = 170
    /\ message[2] \in {0, 2, 3, 4}
    /\ Len(message) = message[3] + 7
    /\ SubSeq(message, Len(message) - 1, Len(message))
         = crc16(SubSeq(message, 1, Len(message) - 2))

\* C8: what a resynchronization discards is garbage only: a valid frame that
\* follows the garbage bytes in the same input buffer is not discarded
C8_OnlyGarbageDropped ==
    last.op = "garbage" =>
        \A i, j \in 1..Len(last.dropped) : ~WellFormed(SubSeq(last.dropped, i, j))

\* C9: a candidate frame that fails parsing is written verbatim to the other side
\* and changes no register, role binding, write-lock deadline, auto-off deadline
\* or poll deadline
C9_InvalidFrameForwardedOnly ==
    [][\A s \in Sides :
         (/\ pc = SidePc(s)
          /\ pc' = AfterSide(s)
          /\ last'.op = "frame"
          /\ ~WellFormed(candidate(buf[s])))
         => /\ Len(last'.wrote) = 1
            /\ last'.wrote[1].to = Other(s)
            /\ last'.wrote[1].m = candidate(buf[s])
            /\ UNCHANGED <<regs, ser_heater, ser_controller, write_lock_timer,
                           heater_timer, settings_timer, status_timer,
                           shutdown_timer, shutdown_request>>]_vars

\* a frame with a bad CRC has been read and forwarded
C9_Witness ==
    /\ last.op = "frame"
    /\ last.device = None
    /\ Len(last.wrote) = 1
    /\ last.wrote[1].m = BadCrcFrame
    /\ last.wrote[1].res = "ok"

\* the sides a step wrote to, in order
WrittenTo(did) == [i \in DOMAIN did.wrote |-> did.wrote[i].to]

\* C10: a queued frame is written only to the side the first valid heater-origin
\* frame since the last connect was read from, to both sides while there has been
\* none; only a connect undoes the binding
C10_InjectionFollowsFirstHeaterFrame ==
    [][/\ Injects => WrittenTo(last') = IF ser_heater # None THEN <<Val(ser_heater)>>
                                        ELSE <<1, 2>>
       /\ ser_heater' # ser_heater
            => \/ Connects /\ ser_heater' = None
               \/ ser_heater = None /\ Parses(4) /\ ser_heater' = Some(last'.side)
       /\ (Parses(4) /\ ser_heater = None) => ser_heater' # None]_vars

\* a queued frame has been written to the heater side alone, bound to side 2
C10_Witness ==
    /\ last.op = "inject"
    /\ ser_heater = Some(2)
    /\ WrittenTo(last) = <<2>>

\* the step is the shutdown retry block
Retries == pc = "shutdown" /\ pc' = "status"
\* the value of heater_status1
Status1 == regs["heater_status1"][1]

\* C11: an off frame 03/03 is queued only by the retry block, only while a
\* shutdown request is active and status1 is not 0, and only more than 10 s after
\* the previous one; the block queues it whenever that holds; with status1 = 0 it
\* clears the request and queues nothing
C11_ShutdownRetry ==
    [][/\ (Retries /\ send_to_heater' # send_to_heater)
            => /\ shutdown_request
               /\ Status1 # Some(0)
               /\ now > shutdown_timer + 10
               /\ send_to_heater' = Append(send_to_heater,
                                          [m |-> <<170, 3, 0, 0, 3, 93, 124>>, tag |-> "off"])
               /\ shutdown_timer' = now
       /\ (Retries /\ shutdown_request /\ Status1 # Some(0) /\ now > shutdown_timer + 10)
            => send_to_heater' # send_to_heater
       /\ (Retries /\ shutdown_request /\ Status1 = Some(0))
            => ~shutdown_request' /\ send_to_heater' = send_to_heater
       /\ shutdown_timer' # shutdown_timer => (Retries /\ send_to_heater' # send_to_heater)
       /\ (\E i \in DOMAIN send_to_heater' : send_to_heater'[i].tag = "off")
            => \/ \E i \in DOMAIN send_to_heater : send_to_heater[i].tag = "off"
               \/ Retries]_vars

\* an off frame has been queued and the request has then been cleared by a
\* status report with status1 = 0
C11_Witness ==
    /\ last.op = "shutdown"
    /\ ~shutdown_request
    /\ Status1 = Some(0)
    /\ shutdown_timer > 0

\* the frame is a valid controller-origin frame that changes what the heater does:
\* 03/01, 03/02 with a payload, 03/03
PanelTakesOver(message) ==
    /\ WellFormed(message)
    /\ message[2] = 3
    /\ message[5] = 1 \/ (message[5] = 2 /\ message[3] # 0) \/ message[5] = 3

\* C12: the auto-off block raises the shutdown request exactly when a deadline is
\* set and now >= deadline; a parsed controller-origin frame 03/01, 03/02 with a
\* payload or 03/03 cancels the deadline, no other frame and no other block of
\* the worker changes it
C12_AutoOff ==
    [][/\ (pc = "autooff" /\ pc' = "shutdown")
            => shutdown_request' =
                 (shutdown_request \/ (heater_timer # None /\ now >= Val(heater_timer)))
       /\ \A s \in Sides :
            (pc = SidePc(s) /\ pc' = AfterSide(s) /\ last'.op = "frame")
            => heater_timer' = IF PanelTakesOver(candidate(buf[s])) THEN None
                               ELSE heater_timer
       /\ (pc' # pc /\ last'.op # "frame") => heater_timer' = heater_timer]_vars

\* an auto-off deadline has been set, has passed, and the request has been raised
C12_Witness ==
    /\ last.op = "autooff"
    /\ heater_timer # None
    /\ now >= Val(heater_timer)
    /\ Val(heater_timer) > 0
    /\ shutdown_request

\* the step is a side block reading a valid heater-origin frame with one of the ids
HeaterReplies(ids) ==
    \E s \in Sides :
        /\ pc = SidePc(s)
        /\ pc' = AfterSide(s)
        /\ last'.op = "frame"
        /\ WellFormed(candidate(buf[s]))
        /\ candidate(buf[s])[2] = 4
        /\ candidate(buf[s])[5] \in ids

\* C13: the status poll block queues an ask-status frame 03/0F exactly when
\* now >= status_timer + 5 and the write-lock is clear, and status_timer is written
\* only when a heater frame 04/0F is received; the settings poll block does the
\* same with 03/02, settings_timer and the heater frames 04/01 and 04/02
C13_Polls ==
    [][/\ (pc = "status" /\ pc' = "settings")
            => IF now >= status_timer + 5 /\ write_lock_timer <= now
               THEN send_to_heater' = Append(send_to_heater,
                        [m |-> <<170, 3, 0, 0, 15, 88, 124>>, tag |-> "status"])
               ELSE send_to_heater' = send_to_heater
       /\ (pc = "settings" /\ pc' = "loop")
            => IF now >= settings_timer + 5 /\ write_lock_timer <= now
               THEN send_to_heater' = Append(send_to_heater,
                        [m |-> <<170, 3, 0, 0, 2, 157, 189>>, tag |-> "settings"])
               ELSE send_to_heater' = send_to_heater
       /\ status_timer' # status_timer => (HeaterReplies({15}) /\ status_timer' = now)
       /\ settings_timer' # settings_timer
            => (HeaterReplies({1, 2}) /\ settings_timer' = now)
       /\ HeaterReplies({15}) => status_timer' = now
       /\ HeaterReplies({1, 2}) => settings_timer' = now]_vars

\* a status poll has been queued after a status report had reset the deadline
C13_Witness ==
    /\ last.op = "status"
    /\ status_timer > 0
    /\ send_to_heater # <<>>
    /\ send_to_heater[Len(send_to_heater)].tag = "status"

\* C14: any transport error, on peek, read or write and on either side,
\* marks the engine disconnected and leaves the worker running: the step in
\* which the error happens clears the connected flag, and the worker is
\* never ended by a transport error.
C14_NoFatalTransportError ==
    [][(pc' # pc /\ last'.op \in {"peek_error", "read_error"})
          => (~connected' /\ pc' # "dead")]_vars

\* C15: a reconnect sets the write-lock deadline to now and unbinds both
\* roles, and leaves the state registers, the injection queue, the shutdown
\* request and the auto-off deadline unchanged; a host command enqueued while
\* the engine is disconnected stays in the queue for as long as the engine
\* is disconnected.
C15_ReconnectKeepsStateAndQueue ==
    [][/\ Connects
            => /\ write_lock_timer' = now
               /\ ser_heater' = None
               /\ ser_controller' = None
               /\ UNCHANGED <<regs, send_to_heater, shutdown_request, heater_timer>>
       /\ ~connected
            => \A i \in DOMAIN send_to_heater :
                  send_to_heater[i].tag = "offline"
                     => \E j \in DOMAIN send_to_heater' :
                           send_to_heater'[j] = send_to_heater[i]]_vars

\* C16: after stop is requested the worker leaves its loop within one further
\* loop iteration, also while the engine is disconnected and the transports
\* cannot be reopened: at most the connect attempt under way when stop was
\* requested fails after it, the worker begins no further attempt.
C16_StopsWithinOneIteration == retries <= 1

\* a step of a host API call on a caller thread
HostCalls == calls' # calls \/ caller' # caller

\* C17: a host API call changes engine state only by appending to the
\* injection queue: the shutdown request, the auto-off deadline, the
\* write-lock deadline, the poll deadlines and the state registers are
\* written only by the worker.
C17_HostOnlyAppends ==
    [][HostCalls
          => /\ UNCHANGED <<shutdown_request, heater_timer, write_lock_timer,
                            status_timer, settings_timer, regs>>
             /\ \E tail \in {SubSeq(send_to_heater', Len(send_to_heater) + 1,
                                    Len(send_to_heater'))} :
                   send_to_heater' = send_to_heater \o tail]_vars

\* the frame a side block has just read and forwarded
FrameRead == IF last'.op = "frame" /\ last'.wrote # <<>> THEN last'.wrote[1].m ELSE <<>>

\* C18: for every CRC-valid heater-origin frame with id2 0x0F and a 10-byte
\* payload, once processed status1 = payload[0], status2 = payload[1],
\* errors = payload[2], heater_temperature = payload[3], external_temperature
\* = payload[4], battery_voltage = payload[6]/10 and flame_temperature = the
\* big-endian value of payload[7:9], each stamped with the time of
\* processing, which is not earlier than the arrival; the payload
\* 03 00 00 18 05 00 8C 01 2C 00 gives 3, 0, 0, 24, 5, 14.0 and 300.
C18_StatusDecoded ==
    [][\A message \in {FrameRead} :
         (/\ Parses(4)
          /\ WellFormed(message)
          /\ message[5] = 15
          /\ message[3] = 10)
            => \E p \in {SubSeq(message, 6, 15)} :
                 /\ regs'["heater_status1"] = <<Some(p[1]), Some(now)>>
                 /\ regs'["heater_status2"] = <<Some(p[2]), Some(now)>>
                 /\ regs'["heater_errors"] = <<Some(p[3]), Some(now)>>
                 /\ regs'["heater_temperature"] = <<Some(p[4]), Some(now)>>
                 /\ regs'["external_temperature"] = <<Some(p[5]), Some(now)>>
                 /\ regs'["battery_voltage"] = <<Some(<<p[7] \div 10, p[7] % 10>>), Some(now)>>
                 /\ regs'["flame_temperature"] = <<Some(p[8] * 256 + p[9]), Some(now)>>
                 /\ p = <<3, 0, 0, 24, 5, 0, 140, 1, 44, 0>>
                      => /\ regs'["heater_status1"][1] = Some(3)
                         /\ regs'["heater_status2"][1] = Some(0)
                         /\ regs'["heater_errors"][1] = Some(0)
                         /\ regs'["heater_temperature"][1] = Some(24)
                         /\ regs'["external_temperature"][1] = Some(5)
                         /\ regs'["battery_voltage"][1] = Some(<<14, 0>>)
                         /\ regs'["flame_temperature"][1] = Some(300)]_vars

\* the status frame of the example has been processed after time has passed
C18_Witness ==
    /\ last.op = "frame"
    /\ last.device = Some(4)
    /\ last.wrote[1].m = <<170, 4, 10, 0, 15, 3, 0, 0, 24, 5, 0, 140, 1, 44, 0>>
                            \o crc16(<<170, 4, 10, 0, 15, 3, 0, 0, 24, 5, 0, 140, 1, 44, 0>>)
    /\ now > 0
    /\ regs["flame_temperature"] = <<Some(300), Some(now)>>
    /\ regs["battery_voltage"] = <<Some(<<14, 0>>), Some(now)>>

\* C19: for every device in {0x00, 0x02, 0x03, 0x04}, every id1 and id2 in
\* 0..255 and every payload of 0..255 bytes, parse(build(device, id2, id1,
\* payload)) succeeds and returns a message with the same device, id1, id2,
\* length = len(payload) and payload.
C19_RoundTrip ==
    (/\ codec.stage = "parsed"
     /\ codec.device \in {0, 2, 3, 4}
     /\ codec.msg_id1 \in 0..255
     /\ codec.msg_id2 \in 0..255
     /\ Len(codec.payload) \in 0..255)
       => /\ codec.message.ok
          /\ codec.message.device = codec.device
          /\ codec.message.msg_id1 = codec.msg_id1
          /\ codec.message.msg_id2 = codec.msg_id2
          /\ codec.message.length = Len(codec.payload)
          /\ codec.message.payload = codec.payload

\* a frame with the longest payload and two different identifiers has been
\* built and parsed
C19_Witness ==
    /\ codec.stage = "parsed"
    /\ Len(codec.payload) = 255
    /\ codec.msg_id1 = 1
    /\ codec.msg_id2 = 15
    /\ codec.message.ok
    /\ Len(codec.frame) = 262

\* the ask-status frame has been built: build(0x03, 0x0f), no payload
AskStatusBuilt ==
    /\ codec.stage # "args"
    /\ codec.device = 3
    /\ codec.msg_id1 = 0
    /\ codec.msg_id2 = 15
    /\ codec.payload = <<>>

\* C20, as stated: build(device=0x03, id2=0x0F, empty payload) yields the
\* bytes AA 03 00 00 0F followed by the two CRC bytes 3F B5.
C20_AskStatusCrc3FB5 ==
    AskStatusBuilt => codec.frame = <<170, 3, 0, 0, 15, 63, 181>>

\* C20, amended: build(device=0x03, id2=0x0F, empty payload) yields the bytes
\* AA 03 00 00 0F followed by the two CRC bytes 58 7C: the CRC-16/Modbus of
\* the first five bytes is 0x587C and its high byte comes first.
C20_AskStatusCrc587C ==
    AskStatusBuilt
       => /\ codec.frame = <<170, 3, 0, 0, 15, 88, 124>>
          /\ codec.frame[6] * 256 + codec.frame[7] = 22652

C20_Witness ==
    /\ AskStatusBuilt
    /\ codec.stage = "built"
    /\ Len(codec.frame) = 7

\* C27: in every reachable state in which both roles are bound, the heater
\* side and the controller side are different transports, whatever device
\* codes arrive on either side.
C27_RolesOnDifferentSides ==
    (ser_heater # None /\ ser_controller # None) => ser_heater # ser_controller

\* C22: a CRC-valid heater-origin frame with id2 0x01 or 0x02 and a payload
\* length other than 6, or with id2 0x0F and a payload length other than 10,
\* is not applied: no register changes and the settings-poll or status-poll
\* deadline is not reset.
C22_WrongLengthNotApplied ==
    [][\A message \in {FrameRead} :
         (Parses(4) /\ WellFormed(message))
            => /\ (message[5] \in {1, 2} /\ message[3] # 6)
                    => (regs' = regs /\ settings_timer' = settings_timer)
               /\ (message[5] = 15 /\ message[3] # 10)
                    => (regs' = regs /\ status_timer' = status_timer)]_vars

\* how many frames the poll with this tag has pending in the queue
Pending(tag) == Cardinality({i \in DOMAIN send_to_heater : send_to_heater[i].tag = tag})

\* C25: in every reachable state at most one ask-status frame and at most one
\* ask-settings frame enqueued by the timer polls are pending in the queue,
\* also when the heater never replies and time advances between the
\* injection check and the poll checks of one iteration.
C25_OnePollPending == Pending("status") <= 1 /\ Pending("settings") <= 1

\* C21: get_heater_timer() returns the auto-off deadline stored in the
\* engine, none initially and after a controller frame has cancelled it,
\* otherwise the deadline set by the most recent set_heater_timer or timer
\* argument; the call never fails.
C21_GetHeaterTimerReturnsDeadline ==
    [][returned' # returned
          => (~returned'.raised /\ returned'.value = heater_timer)]_vars

\* C24: a shutdown request is never cleared on the strength of a status1
\* value recorded before the request was raised: after shutdown() is called
\* the request stays active until a heater status frame with status1 = 0 is
\* received after the call.
C24_ClearedByLaterStatusOnly ==
    [][(shutdown_request /\ ~shutdown_request') => off_since]_vars

\* C23: an auto-off deadline raises the shutdown request only for the session
\* it was set for: once it has expired and the heater has reported
\* status1 = 0, the auto-off block raises no shutdown request on the strength
\* of the same deadline after a later turn_on_heater, change_settings or
\* turn_on_ventilation call made without a timer.
C23_ExpiredDeadlineSpent ==
    [][(pc = "autooff" /\ pc' = "shutdown" /\ session = "reused")
          => shutdown_request' = shutdown_request]_vars

\* C26: under a fair worker schedule with the link connected, a frame pending
\* on side 2 is eventually read, a queued frame whose write-lock is clear
\* eventually meets the injection block, and a status poll that is due
\* eventually meets its block, whatever arrives on side 1, also when side 1
\* delivers a 0x1B byte or a non-0xAA byte before every iteration.
C26_EventuallyServiced ==
    /\ (connected /\ buf[2] # <<>>) ~> (buf[2] = <<>> \/ ~connected)
    /\ (connected /\ send_to_heater # <<>> /\ write_lock_timer <= now)
          ~> (pc = "autooff" \/ ~connected)
    /\ (connected /\ now >= status_timer + 5 /\ write_lock_timer <= now)
          ~> (pc = "settings" \/ ~connected)

====
